---- MODULE Spec2Model ----
(***************************************************************************)
(* A model of src/app.py: the scraper get_image_urls, the image transform  *)
(* process_image and the "Start Scraping" button handler that calls them.  *)
(*                                                                         *)
(* Strings are sequences of tokens (a token is a run of characters the     *)
(* code never looks inside), so that strip, split and startswith are       *)
(* computed as the code computes them.                                     *)
(***************************************************************************)
EXTENDS Integers, Sequences, FiniteSets

\* ------------------------------------------------------------------ bounds
\* Most <script> elements on one fetched page.
MaxScripts == 2
\* Most pattern matches inside one <script> element.
MaxMatches == 2
\* Most <img> elements looked at on one fetched page.
MaxImgs == 2

\* ------------------------------------------------------- program constants
MinImages == 1
MaxImages == 100
PageStep == 20
StartLimit == 100
\* Significand bits of a Python float (IEEE 754 binary64).
Precision == 53
\* The significand is multiplied in limbs of this many bits, so that a limb
\* times a 12-bit integer stays below 2^31.
LimbBits == Precision \div 3 + 1

GOOGLE_IMAGE == "https://www.google.com/search?tbm=isch&"

VARIABLES
    \* the widgets and the arguments of the running get_image_urls call
    query, num_images, safety, ua,
    \* get_image_urls: position and locals
    pc, image_urls, start, matches, img_seen, errors,
    \* scripts looked at on the current page, and whether one of them matched
    nscripts, anyMatch,
    \* the HTTP requests the current call has issued, in order
    requests,
    \* what the call returned, and the exception its handler caught (if any)
    ret, exc,
    \* the first request of the previous call, with the widget values it ran under
    prev,
    \* process_image: the last call's arguments, locals and result
    pi

scrapeVars == <<query, num_images, safety, ua, pc, image_urls, start, matches,
                img_seen, errors, nscripts, anyMatch, requests, ret, exc, prev>>
vars == <<query, num_images, safety, ua, pc, image_urls, start, matches,
          img_seen, errors, nscripts, anyMatch, requests, ret, exc, prev, pi>>

\* ------------------------------------------------------------ input domains
\* Resource names that appear in page URLs.
UsedNames == {"a"}

Quote == "\""
\* What image_pattern.findall can return: a quoted http URL ending in an image
\* suffix, possibly with an escaped "=" (=) inside.
ScriptRaws ==
    {<<Quote, "http", n, ".jpg", Quote>> : n \in UsedNames}
    \cup {<<Quote, "http", n, "\\u003d", "s", ".jpg", Quote>> : n \in UsedNames}

\* Values of an <img> attribute: <<>> is an absent (or empty) attribute.
ImgSrcs ==
    {<<"http", n, ".jpg">> : n \in UsedNames}
    \cup {<<"http", n, "?", "w=1">> : n \in UsedNames}
    \cup {<<"data:", "x">>}
ImgTags ==
    {[src |-> s, data_src |-> <<>>] : s \in ImgSrcs}
    \cup {[src |-> <<>>, data_src |-> d] : d \in ImgSrcs \cup {<<>>}}

SeqsUpTo(S, n) == UNION {[1..k -> S] : k \in 0..n}
MatchLists == SeqsUpTo(ScriptRaws, MaxMatches)

Queries == {"cats"}
\* What ua.random may draw (line 23).
UserAgents == {"ua1", "ua2"}
\* Slider positions (1..100) and, for direct calls, values around the range.
SliderValues == {1, 2, 100}
CallValues == SliderValues \cup {0, 101}
FetchExceptions == {"HTTPError"}

\* ------------------------------------------------------------ string helpers
RECURSIVE LStrip(_, _)
LStrip(s, c) == IF s # <<>> /\ Head(s) = c THEN LStrip(Tail(s), c) ELSE s
RECURSIVE RStrip(_, _)
RStrip(s, c) ==
    IF s # <<>> /\ s[Len(s)] = c THEN RStrip(SubSeq(s, 1, Len(s) - 1), c) ELSE s
\* str.strip(c)
Strip(s, c) == RStrip(LStrip(s, c), c)

RECURSIVE SplitFirst(_, _)
\* str.split(sep)[0]
SplitFirst(s, sep) ==
    IF s = <<>> \/ Head(s) = sep THEN <<>>
    ELSE <<Head(s)>> \o SplitFirst(Tail(s), sep)

\* str.startswith("http")
StartsWithHttp(s) == s # <<>> /\ Head(s) = "http"

Contains(list, x) == \E i \in 1..Len(list) : list[i] = x

\* line 43
CleanedUrl(url) == SplitFirst(Strip(url, Quote), "\\u003d")
\* line 56
CleanSrc(src) == SplitFirst(src, "?")
\* line 54: img.get("src") or img.get("data-src")
SrcOf(img) == IF img.src # <<>> THEN img.src ELSE img.data_src

\* line 32
SearchUrl(q, st) == <<GOOGLE_IMAGE, "q=", q, "&start=", st>>
\* lines 22-28 and 33
Request(q, st, agent) == [url |-> SearchUrl(q, st), user_agent |-> agent]

\* ------------------------------------------------------------ error messages
ErrRange == [fmt |-> "Number of images must be between 1 and 100.", n |-> 0, e |-> ""]
ErrFound(n) == [fmt |-> "Found {n} images. Google may have limited results.", n |-> n, e |-> ""]
ErrFetch(e) == [fmt |-> "Error fetching images: {e}", n |-> 0, e |-> e]

\* ------------------------------------------------------------ get_image_urls
NoRet == [urls |-> <<>>, errors |-> <<>>]

\* Mutant of OutOfRange: the lower limit off by one (n < 0).
OutOfRangeFromZero(n) == n < MinImages - 1 \/ n > MaxImages

\* line 15
OutOfRange(n) == n < MinImages \/ n > MaxImages

\* Mutant of NextStart: the offset is not advanced, the page is asked again.
NextStartSamePage(st) == st

\* line 67
NextStart(st) == st + PageStep

RECURSIVE ScanMatches(_, _, _)
\* lines 42-47: the inner loop over one script's matches.
ScanMatches(urls, ms, n) ==
    IF ms = <<>> THEN urls
    ELSE LET cleaned_url == CleanedUrl(Head(ms))
             added == IF StartsWithHttp(cleaned_url) /\ ~Contains(urls, cleaned_url)
                      THEN Append(urls, cleaned_url) ELSE urls
         IN  IF added # urls /\ Len(added) >= n THEN added
             ELSE ScanMatches(added, Tail(ms), n)

\* lines 54-58: one <img> element.
ScanImg(urls, img) ==
    LET src == SrcOf(img)
    IN  IF src # <<>> /\ StartsWithHttp(src) /\ ~Contains(urls, CleanSrc(src))
        THEN Append(urls, CleanSrc(src)) ELSE urls

ToSet(list) == {list[i] : i \in 1..Len(list)}
Orderings(S) ==
    {f \in [1..Cardinality(S) -> S] : \A i, j \in 1..Cardinality(S) : f[i] = f[j] => i = j}
Take(list, n) == SubSeq(list, 1, IF Len(list) < n THEN Len(list) ELSE n)

\* Mutant of ReturnedLists: the [:num_images] slice is left out.
ReturnedListsUncut(urls, n) == Orderings(ToSet(urls))

\* line 74: list(set(image_urls))[:num_images]; a set's iteration order is
\* not specified, so every ordering of the distinct URLs is a possible list.
ReturnedLists(urls, n) == {Take(o, n) : o \in Orderings(ToSet(urls))}

\* Mutant of ExceptReturn: the URLs collected before the exception are returned.
ExceptReturnPartial(urls, errs, e) == [urls |-> urls, errors |-> Append(errs, ErrFetch(e))]

\* lines 76-78
ExceptReturn(urls, errs, e) == [urls |-> <<>>, errors |-> Append(errs, ErrFetch(e))]

\* The call has returned: its loop locals are gone. image_urls, errors and
\* requests are kept as the record of what the call did.
LocalsDropped ==
    /\ start' = 0
    /\ matches' = <<>>
    /\ img_seen' = 0
    /\ nscripts' = 0
    /\ anyMatch' = FALSE

\* History: the first request of the call that has just ended, with the
\* widget values and arguments it ran under.
PrevAfter ==
    IF requests # <<>>
    THEN <<[safety |-> safety, query |-> query, num_images |-> num_images,
            request |-> requests[1]]>>
    ELSE prev

\* Entry of get_image_urls(q, n), lines 14-28.
Enter(q, n, agent) ==
    /\ query' = q
    /\ num_images' = n
    /\ ua' = agent
    /\ prev' = PrevAfter
    /\ requests' = <<>>
    /\ exc' = <<>>
    /\ image_urls' = <<>>
    /\ start' = 0
    /\ matches' = <<>>
    /\ img_seen' = 0
    /\ nscripts' = 0
    /\ anyMatch' = FALSE
    /\ IF OutOfRange(n)
       THEN /\ errors' = <<ErrRange>>
            /\ ret' = [urls |-> <<>>, errors |-> <<ErrRange>>]
            /\ pc' = "done"
       ELSE /\ errors' = <<>>
            /\ ret' = NoRet
            /\ pc' = "while"

\* The button handler, lines 167-175: the widgets are read, an empty query
\* stops the script, otherwise get_image_urls(query, num_images) is called.
\* The Safe Search checkbox is read into safety and passed nowhere.
StartScraping ==
    /\ pc \in {"idle", "done"}
    /\ \E q \in Queries \cup {""}, n \in SliderValues, s \in BOOLEAN, agent \in UserAgents :
        /\ safety' = s
        /\ IF q = ""
           THEN \* lines 169-171: a warning, and the script stops
                /\ pc' = "idle"
                /\ prev' = PrevAfter
                /\ query' = ""
                /\ requests' = <<>>
                /\ image_urls' = <<>>
                /\ errors' = <<>>
                /\ ret' = NoRet
                /\ exc' = <<>>
                /\ LocalsDropped
                /\ UNCHANGED <<num_images, ua>>
           ELSE Enter(q, n, agent)
    /\ UNCHANGED pi

\* get_image_urls called directly, with any num_images.
CallGetImageUrls ==
    /\ pc \in {"idle", "done"}
    /\ \E q \in Queries, n \in CallValues, agent \in UserAgents : Enter(q, n, agent)
    /\ UNCHANGED <<safety, pi>>

\* lines 31-38: the loop test passes, the page is requested and parsed.
FetchPage ==
    /\ pc = "while"
    /\ Len(image_urls) < num_images
    /\ requests' = Append(requests, Request(query, start, ua))
    /\ nscripts' = 0
    /\ img_seen' = 0
    /\ anyMatch' = FALSE
    /\ pc' = "scripts"
    /\ UNCHANGED <<query, num_images, safety, ua, image_urls, start, matches, errors,
                   ret, exc, prev, pi>>

\* lines 33-35 raise (the request, raise_for_status or the parser): lines 76-78.
FetchRaises ==
    /\ pc = "while"
    /\ Len(image_urls) < num_images
    /\ \E e \in FetchExceptions :
        /\ requests' = Append(requests, Request(query, start, ua))
        /\ exc' = <<e>>
        /\ ret' = ExceptReturn(image_urls, errors, e)
        /\ errors' = Append(errors, ErrFetch(e))
    /\ pc' = "done"
    /\ LocalsDropped
    /\ UNCHANGED <<query, num_images, safety, ua, image_urls, prev, pi>>

\* lines 40-49: the next <script> element, with what the pattern finds in it.
NextScript ==
    /\ pc = "scripts"
    /\ nscripts < MaxScripts
    /\ \E ms \in MatchLists :
        /\ matches' = <<ms>>
        /\ image_urls' = ScanMatches(image_urls, ms, num_images)
        /\ anyMatch' = (anyMatch \/ ms # <<>>)
    /\ nscripts' = nscripts + 1
    /\ pc' = IF Len(image_urls') >= num_images THEN "imgs" ELSE "scripts"
    /\ UNCHANGED <<query, num_images, safety, ua, start, img_seen, errors, requests,
                   ret, exc, prev, pi>>

\* line 40: no <script> element is left.
ScriptsExhausted ==
    /\ pc = "scripts"
    /\ pc' = "imgs"
    /\ UNCHANGED <<query, num_images, safety, ua, image_urls, start, matches, img_seen,
                   errors, nscripts, anyMatch, requests, ret, exc, prev, pi>>

\* lines 53-62: the next <img> element.
NextImg ==
    /\ pc = "imgs"
    /\ img_seen < MaxImgs
    /\ \E img \in ImgTags : image_urls' = ScanImg(image_urls, img)
    /\ img_seen' = img_seen + 1
    /\ pc' = IF Len(image_urls') >= num_images THEN "check" ELSE "imgs"
    /\ UNCHANGED <<query, num_images, safety, ua, start, matches, errors, nscripts,
                   anyMatch, requests, ret, exc, prev, pi>>

\* line 53: no <img> element is left.
ImgsExhausted ==
    /\ pc = "imgs"
    /\ pc' = "check"
    /\ UNCHANGED <<query, num_images, safety, ua, image_urls, start, matches, img_seen,
                   errors, nscripts, anyMatch, requests, ret, exc, prev, pi>>

\* lines 64-72: the end of the loop body. matches is the last findall result
\* of this call; it is unbound when no script element was ever looked at.
EndOfPage ==
    /\ pc = "check"
    /\ IF img_seen = 0 /\ matches = <<>>
       THEN \* line 64 reads the unbound local: UnboundLocalError, lines 76-78
            /\ exc' = <<"UnboundLocalError">>
            /\ ret' = ExceptReturn(image_urls, errors, "UnboundLocalError")
            /\ errors' = Append(errors, ErrFetch("UnboundLocalError"))
            /\ pc' = "done"
            /\ LocalsDropped
       ELSE IF img_seen = 0 /\ matches[1] = <<>>
       THEN \* line 65
            /\ pc' = "return"
            /\ UNCHANGED <<start, errors, ret, exc, matches, img_seen, nscripts, anyMatch>>
       ELSE /\ start' = NextStart(start)
            /\ IF Len(image_urls) < num_images /\ start' >= StartLimit
               THEN /\ errors' = Append(errors, ErrFound(Len(image_urls)))
                    /\ pc' = "return"
               ELSE /\ errors' = errors
                    /\ pc' = "while"
            /\ UNCHANGED <<ret, exc, matches, img_seen, nscripts, anyMatch>>
    /\ UNCHANGED <<query, num_images, safety, ua, image_urls, requests, prev, pi>>

\* line 74, reached by a break or by the loop test failing.
Return ==
    /\ \/ pc = "return"
       \/ pc = "while" /\ Len(image_urls) >= num_images
    /\ \E l \in ReturnedLists(image_urls, num_images) : ret' = [urls |-> l, errors |-> errors]
    /\ pc' = "done"
    /\ LocalsDropped
    /\ UNCHANGED <<query, num_images, safety, ua, image_urls, errors, requests, exc, prev, pi>>

\* ------------------------------------------------- Python float arithmetic
\* A positive float is [e, m]: m is the significand, Precision bits with the
\* most significant first (m[1] = 1), and the value is m[1].m[2]... * 2^e.
\* Division and multiplication round to nearest, ties to even.

RECURSIVE Pow2(_)
Pow2(k) ==
    IF k = 0 THEN 1
    ELSE LET h == Pow2(k \div 2) IN IF k % 2 = 1 THEN 2 * h * h ELSE h * h

RECURSIVE Pow2Mod(_, _)
\* 2^k mod d
Pow2Mod(k, d) ==
    IF k = 0 THEN 1 % d
    ELSE LET h == Pow2Mod(k \div 2, d)
         IN  IF k % 2 = 1 THEN (2 * ((h * h) % d)) % d ELSE (h * h) % d

RECURSIVE BitsToInt(_)
BitsToInt(bits) ==
    IF bits = <<>> THEN 0
    ELSE IF Len(bits) = 1 THEN bits[1]
    ELSE LET half == Len(bits) \div 2
             hi == SubSeq(bits, 1, half)
             lo == SubSeq(bits, half + 1, Len(bits))
         IN  BitsToInt(hi) * Pow2(Len(lo)) + BitsToInt(lo)

RECURSIVE BitLength(_)
\* int.bit_length
BitLength(n) == IF n = 0 THEN 0 ELSE 1 + BitLength(n \div 2)

\* The low w binary digits of n, most significant first.
IntToBits(n, w) == [i \in 1..w |-> (n \div Pow2(w - i)) % 2]

\* bits + 1, with a leading carry bit when it overflows.
IncBits(bits) ==
    IF \A i \in 1..Len(bits) : bits[i] = 1
    THEN <<1>> \o [i \in 1..Len(bits) |-> 0]
    ELSE LET k == CHOOSE i \in 1..Len(bits) :
                    bits[i] = 0 /\ \A j \in (i + 1)..Len(bits) : bits[j] = 1
         IN  [i \in 1..Len(bits) |-> IF i < k THEN bits[i] ELSE IF i = k THEN 1 ELSE 0]

\* Round the exact value bits[1].bits[2]... * 2^e (bits[1] = 1, any length,
\* sticky: a nonzero remainder lies below the last bit) to Precision bits.
RoundBits(e, bits, sticky) ==
    IF Len(bits) <= Precision
    THEN [e |-> e, m |-> bits \o [i \in 1..(Precision - Len(bits)) |-> 0]]
    ELSE LET kept == SubSeq(bits, 1, Precision)
             guard == bits[Precision + 1]
             rest == sticky \/ \E i \in (Precision + 2)..Len(bits) : bits[i] = 1
             up == guard = 1 /\ (rest \/ kept[Precision] = 1)
             inc == IncBits(kept)
         IN  IF ~up THEN [e |-> e, m |-> kept]
             ELSE IF Len(inc) > Precision
             THEN [e |-> e + 1, m |-> SubSeq(inc, 1, Precision)]
             ELSE [e |-> e, m |-> inc]

\* Long division of r / d (r < d): the remainder before quotient bit i is
\* r * 2^(i-1) mod d, and the bit says whether doubling it reaches d.
DivRemainder(r, d, i) == (r * Pow2Mod(i - 1, d)) % d
DivBits(r, d, k) == [i \in 1..k |-> IF 2 * DivRemainder(r, d, i) >= d THEN 1 ELSE 0]

RECURSIVE ShiftUp(_, _)
\* The least k with a * 2^k >= b.
ShiftUp(a, b) == IF a >= b THEN 0 ELSE 1 + ShiftUp(2 * a, b)
RECURSIVE ShiftDown(_, _)
\* The greatest k with b * 2^k <= a (a >= b).
ShiftDown(a, b) == IF 2 * b > a THEN 0 ELSE 1 + ShiftDown(a, 2 * b)

\* a / b for integers a, b > 0 (true division of two ints): the leading bit,
\* Precision more quotient bits, and whether a remainder is left below them.
FloatDiv(a, b) ==
    LET up == ShiftUp(a, b)
        down == IF a >= b THEN ShiftDown(a, b) ELSE 0
        n == a * Pow2(up)
        d == b * Pow2(down)
    IN  RoundBits(down - up, <<1>> \o DivBits(n - d, d, Precision),
                  DivRemainder(n - d, d, Precision + 1) # 0)

\* n * bits + carry, where bits are LimbBits binary digits of the
\* significand: the digits that stay in the limb and what is carried above.
MulLimb(n, bits, carry) ==
    LET t == n * BitsToInt(bits) + carry
    IN  [carry |-> t \div Pow2(Len(bits)), bits |-> IntToBits(t % Pow2(Len(bits)), Len(bits))]

\* n * f for an integer 0 < n < 2^12 (converted exactly) and a float f: the
\* exact product of n and the significand, limb by limb from the low end,
\* then rounded.
FloatMulInt(n, f) ==
    LET lo == MulLimb(n, SubSeq(f.m, 2 * LimbBits + 1, Precision), 0)
        mid == MulLimb(n, SubSeq(f.m, LimbBits + 1, 2 * LimbBits), lo.carry)
        hi == MulLimb(n, SubSeq(f.m, 1, LimbBits), mid.carry)
        prod == IntToBits(hi.carry, BitLength(hi.carry)) \o hi.bits \o mid.bits \o lo.bits
    IN  RoundBits(f.e + (Len(prod) - Precision), prod, FALSE)

\* int(f): truncation (f >= 0).
FloatToInt(f) == IF f.e < 0 THEN 0 ELSE BitsToInt(SubSeq(f.m, 1, f.e + 1))

\* f > g
FloatGreater(f, g) ==
    \/ f.e > g.e
    \/ /\ f.e = g.e
       /\ \E i \in 1..Precision :
            /\ f.m[i] > g.m[i]
            /\ \A j \in 1..(i - 1) : f.m[j] = g.m[j]

\* ------------------------------------------------------------ process_image
\* Option values: <<>> is None, <<v>> is v.
None == <<>>
Some(v) == <<v>>

\* lines 157-162: what the aspect-ratio radio makes of target_size.
TargetSizes == {None, Some(<<1920, 1080>>), Some(<<1080, 1920>>)}

\* Sizes of downloaded images.
Dimensions == {1, 9, 16, 99, 176, 480, 640, 1080, 1920, 3000}
OriginalSizes == Dimensions \X Dimensions

ImageUrls == {<<"http", "a", ".jpg">>}

\* What each step can raise.
DownloadExceptions == {"ConnectionError", "HTTPError"}
DecodeExceptions == {"UnidentifiedImageError"}
ResizeExceptions == {"MemoryError"}
EnhanceExceptions == {"ValueError"}

\* Mutant of Caught: only the download's exceptions are caught
\* (except requests.RequestException).
CaughtRequestsOnly(e) == e \in DownloadExceptions

\* line 133: except Exception. Everything the steps raise derives from it.
Caught(e) ==
    e \in DownloadExceptions \cup DecodeExceptions \cup ResizeExceptions
          \cup EnhanceExceptions

\* lines 92-109: the resized size and the crop box (left, upper, right, lower).
Geometry(orig, target) ==
    LET target_width == target[1]
        target_height == target[2]
        orig_width == orig[1]
        orig_height == orig[2]
        target_aspect == FloatDiv(target_width, target_height)
        orig_aspect == FloatDiv(orig_width, orig_height)
    IN  IF FloatGreater(orig_aspect, target_aspect)
        THEN LET new_height == target_height
                 new_width ==
                     FloatToInt(FloatMulInt(orig_width, FloatDiv(target_height, orig_height)))
                 left == (new_width - target_width) \div 2
             IN  [new_size |-> <<new_width, new_height>>,
                  box |-> <<left, 0, left + target_width, target_height>>]
        ELSE LET new_width == target_width
                 new_height ==
                     FloatToInt(FloatMulInt(orig_height, FloatDiv(target_width, orig_width)))
                 top == (new_height - target_height) \div 2
             IN  [new_size |-> <<new_width, new_height>>,
                  box |-> <<0, top, target_width, top + target_height>>]

\* Image.crop(box): the result has the box's size, also where the box
\* reaches outside the image.
CropSize(box) == <<box[3] - box[1], box[4] - box[2]>>

PIIdle ==
    [pc |-> "idle", url |-> <<>>, target_size |-> None, enhance |-> TRUE,
     size |-> None, original_size |-> None, new_size |-> None, box |-> None,
     ret |-> [img |-> None, original_size |-> None, error |-> None],
     raised |-> None]

\* lines 133-134, or the exception leaving process_image.
PIExcept(p, e) ==
    IF Caught(e)
    THEN [p EXCEPT !.pc = "done",
                   !.ret = [img |-> None, original_size |-> None,
                            error |-> Some(<<"Failed to process ", p.url, ": ", e>>)]]
    ELSE [p EXCEPT !.pc = "done", !.raised = Some(e)]

\* line 80: process_image(url, target_size, enhance) is called (line 188).
PICall ==
    /\ pi.pc \in {"idle", "done"}
    /\ \E u \in ImageUrls, t \in TargetSizes, en \in BOOLEAN :
        pi' = [PIIdle EXCEPT !.pc = "download", !.url = u, !.target_size = t, !.enhance = en]
    /\ UNCHANGED scrapeVars

\* lines 83-85
PIDownload ==
    /\ pi.pc = "download"
    /\ \/ pi' = [pi EXCEPT !.pc = "decode"]
       \/ \E e \in DownloadExceptions : pi' = PIExcept(pi, e)
    /\ UNCHANGED scrapeVars

\* lines 87-88
PIDecode ==
    /\ pi.pc = "decode"
    /\ \/ \E sz \in OriginalSizes :
            pi' = [pi EXCEPT !.pc = "resize", !.size = Some(sz), !.original_size = Some(sz)]
       \/ \E e \in DecodeExceptions : pi' = PIExcept(pi, e)
    /\ UNCHANGED scrapeVars

\* lines 91-109
PIResize ==
    /\ pi.pc = "resize"
    /\ IF pi.target_size = None
       THEN pi' = [pi EXCEPT !.pc = "enhance"]
       ELSE \/ LET g == Geometry(pi.size[1], pi.target_size[1])
               IN  pi' = [pi EXCEPT !.pc = "enhance", !.new_size = Some(g.new_size),
                                    !.box = Some(g.box), !.size = Some(CropSize(g.box))]
            \/ \E e \in ResizeExceptions : pi' = PIExcept(pi, e)
    /\ UNCHANGED scrapeVars

\* lines 112-130
PIEnhance ==
    /\ pi.pc = "enhance"
    /\ IF ~pi.enhance
       THEN pi' = [pi EXCEPT !.pc = "return"]
       ELSE \/ pi' = [pi EXCEPT !.pc = "return"]
            \/ \E e \in EnhanceExceptions : pi' = PIExcept(pi, e)
    /\ UNCHANGED scrapeVars

\* line 132
PIReturn ==
    /\ pi.pc = "return"
    /\ pi' = [pi EXCEPT !.pc = "done",
                        !.ret = [img |-> pi.size, original_size |-> pi.original_size,
                                 error |-> None]]
    /\ UNCHANGED scrapeVars

ScrapeInit ==
    /\ query = ""
    /\ num_images = 20
    /\ safety = TRUE
    /\ ua = "ua1"
    /\ pc = "idle"
    /\ image_urls = <<>>
    /\ start = 0
    /\ matches = <<>>
    /\ img_seen = 0
    /\ errors = <<>>
    /\ nscripts = 0
    /\ anyMatch = FALSE
    /\ requests = <<>>
    /\ ret = NoRet
    /\ exc = <<>>
    /\ prev = <<>>

Init ==
    /\ ScrapeInit
    /\ pi = PIIdle

Next ==
    \/ StartScraping
    \/ CallGetImageUrls
    \/ FetchPage
    \/ FetchRaises
    \/ NextScript
    \/ ScriptsExhausted
    \/ NextImg
    \/ ImgsExhausted
    \/ EndOfPage
    \/ Return

Spec == Init /\ [][Next]_vars

NextProcess ==
    \/ PICall
    \/ PIDownload
    \/ PIDecode
    \/ PIResize
    \/ PIEnhance
    \/ PIReturn

SpecProcess == Init /\ [][NextProcess]_vars

\* ------------------------------------------------------------------ claims

\* Each formula below is a property of the code above; the faulty variants
\* (OutOfRangeFromZero, NextStartSamePage, ReturnedListsUncut,
\* ExceptReturnPartial, CaughtRequestsOnly) are the slips that would break them.

\* C1: for num_images in 1..100, whatever pages were fetched, the returned
\* list holds at most num_images URLs and no URL twice.
C1_AtMostNumNoDuplicate ==
    (pc = "done" /\ num_images >= 1 /\ num_images <= 100) =>
        /\ Len(ret.urls) <= num_images
        /\ \A i, j \in 1..Len(ret.urls) : ret.urls[i] = ret.urls[j] => i = j

\* C1 witness: the <img> loop pushed image_urls past num_images, and the
\* returned list was cut back to num_images.
C1_Witness ==
    /\ pc = "done"
    /\ exc = <<>>
    /\ num_images = 1
    /\ Len(image_urls) > num_images
    /\ Len(ret.urls) = num_images

\* C2: with num_images < 1 or > 100 the call returns no URL, exactly the one
\* range error, and issues no HTTP request.
C2_OutOfRangeRejected ==
    (pc = "done" /\ (num_images < 1 \/ num_images > 100)) =>
        /\ ret.urls = <<>>
        /\ ret.errors = <<ErrRange>>
        /\ requests = <<>>

C2_Witness ==
    /\ pc = "done"
    /\ num_images = 0
    /\ ret.errors = <<ErrRange>>

\* C5: for the same query and num_images, the search request issued with
\* Safe Search checked differs from the one issued with it unchecked.
C5_SafeSearchChangesRequest ==
    (/\ prev # <<>>
     /\ requests # <<>>
     /\ prev[1].query = query
     /\ prev[1].num_images = num_images
     /\ prev[1].safety # safety)
    => prev[1].request # requests[1]

\* C6: a call issues at most 5 page requests, with the offsets 0, 20, 40, 60,
\* 80 in this order, each once; the loop body is never entered at offset 100,
\* so the call ends after at most 5 iterations.
C6_AtMostFiveIncreasingOffsets ==
    /\ Len(requests) <= 5
    /\ \A i \in 1..Len(requests) : requests[i].url = SearchUrl(query, 20 * (i - 1))
    /\ pc = "while" => start = 20 * Len(requests)
    /\ (pc = "while" /\ Len(image_urls) < num_images) => start < 100
    /\ pc \in {"scripts", "imgs", "check"} => start = 20 * (Len(requests) - 1)

C6_Witness ==
    /\ pc = "done"
    /\ Len(requests) = 5
    /\ requests[5].url = SearchUrl(query, 80)

\* C7: when an iteration raises, the call returns no URL, and the returned
\* errors are those collected so far plus one "Error fetching images" entry.
C7_ExceptionReturnsEmpty ==
    [][(exc = <<>> /\ exc' # <<>>) =>
          /\ pc' = "done"
          /\ ret'.urls = <<>>
          /\ ret'.errors = Append(errors, ErrFetch(exc'[1]))]_vars

\* C7 witness: the exception came after earlier pages had yielded URLs.
C7_Witness ==
    /\ pc = "done"
    /\ exc # <<>>
    /\ Len(requests) >= 2
    /\ image_urls # <<>>
    /\ ret.urls = <<>>

\* C8: after a page with no <img> element and no match in any script element
\* (a page without script elements included), the loop stops: no further
\* request, no error added, and the URLs collected so far are returned.
C8_EmptyPageStops ==
    [][(pc = "check" /\ img_seen = 0 /\ ~anyMatch) =>
          /\ pc' = "return"
          /\ errors' = errors
          /\ requests' = requests]_vars

\* C3: with a target size, for every original size with positive width and
\* height, the resized image is at least target_width wide and target_height
\* high, the centred crop box lies inside it, and the result is exactly
\* target_width x target_height.
C3_CropInsideResized ==
    (pi.box # None) =>
        LET target_width == pi.target_size[1][1]
            target_height == pi.target_size[1][2]
            new_width == pi.new_size[1][1]
            new_height == pi.new_size[1][2]
            left == pi.box[1][1]
            top == pi.box[1][2]
        IN  /\ new_width >= target_width
            /\ new_height >= target_height
            /\ 0 <= left /\ left + target_width <= new_width
            /\ 0 <= top /\ top + target_height <= new_height
            /\ pi.box[1] = <<left, top, left + target_width, top + target_height>>
            /\ pi.size = Some(<<target_width, target_height>>)

\* C4: process_image lets no exception out: whatever the download, decode,
\* resize and enhance steps do, it returns (image, original_size, None) or
\* (None, None, message), so exactly one of the image and the error is present.
C4_NeverPropagates ==
    (pi.pc = "done") =>
        /\ pi.raised = None
        /\ \/ pi.ret.img # None /\ pi.ret.original_size # None /\ pi.ret.error = None
           \/ pi.ret.img = None /\ pi.ret.original_size = None /\ pi.ret.error # None

\* C4 witness: a call that failed after the image was decoded and resized,
\* and returned only the message.
C4_Witness ==
    /\ pi.pc = "done"
    /\ pi.box # None
    /\ pi.original_size # None
    /\ pi.ret.img = None
    /\ pi.ret.error # None

====
